---- MODULE Spec2Model ----
(***************************************************************************)
(* Model of turtle_trader_strategy.py: the TurtleStrategy decision         *)
(* function (init / next / _size_position), calc_TR and run_backtest.      *)
(*                                                                         *)
(* The backtesting engine that drives the strategy (Backtest.run) is the   *)
(* environment.  It is modelled by its documented behaviour: indicators    *)
(* are computed once in init() on the whole price table and revealed bar   *)
(* by bar; market orders and trade.close() are queued and executed at the  *)
(* open of the next bar; self.trades is a snapshot of the open trades and  *)
(* self.position their net size.  data.Close is read as the pandas Series  *)
(* that the strategy's use of .rolling supposes, and the scalar returned   *)
(* by the ATR expression as a value available at every bar.  Commission    *)
(* and the broker's own intrabar stop handling are left out: the stop is   *)
(* the attribute trade.sl that the exit check of next() reads.             *)
(*                                                                         *)
(* Prices are integers.  Windows are scaled down, keeping their order      *)
(* sys1_exit < sys1_entry = sys2_exit = atr_periods < sys2_entry and a     *)
(* table length strictly between sys1_entry and sys2_entry.  Spec runs the *)
(* program on tables whose bars open at the previous close, SpecGap on     *)
(* tables with one opening gap, SpecTwice runs it repeatedly.              *)
(***************************************************************************)
EXTENDS Integers, Sequences, FiniteSets, TLC

\* ---- bounds of the model ------------------------------------------------
MaxBars == 10
\* every table starts with QuietBars bars of equal close
QuietBars == 4
\* longest table and number of runs of the repeated-run specification
MaxBarsTwice == 8
MaxRuns == 2
\* longest table of the specification whose tables have an opening gap
MaxBarsGap == 8

\* ---- strategy parameters (class attributes, lines 12-19) -----------------
\* the windows (20, 10, 55, 20, 20 in the source) are scaled down
sys1_entry == 3
sys1_exit == 2
sys2_entry == 5
sys2_exit == 3
atr_periods == 3
risk_level == 2
\* r_max = 0.02, kept as the fraction r_max_num / r_max_den
r_max_num == 2
r_max_den == 100
unit_limit == 5
\* Backtest(data, TurtleStrategy, cash=10000, ...)
cash0 == 10000

\* ---- the price tables the runs are given ---------------------------------
BasePrice == 100
Deltas == {0 - 10, 0, 10}
Wicks == {0, 5, 110}
\* distance between a bar's open and the previous close, where they differ
Gaps == {0 - 20, 20}

\* not-a-number (undefined indicator value) and the infinite size x / 0
NaN == 0 - 1
Inf == 0 - 2

Max2(a, b) == IF a >= b THEN a ELSE b
Min2(a, b) == IF a <= b THEN a ELSE b
Abs(x) == IF x >= 0 THEN x ELSE 0 - x

RECURSIVE SumTo(_, _)
SumTo(d, j) == IF j = 0 THEN 0 ELSE d[j] + SumTo(d, j - 1)

\* The bar k of the table made of the close-to-close moves d: it opens at
\* the previous close and its high carries the wick w.
MkBar(d, w, k) ==
    LET c == BasePrice + SumTo(d, k - 1)
        o == IF k = 1 THEN BasePrice ELSE BasePrice + SumTo(d, k - 2)
    IN [Open |-> o, High |-> Max2(o, c) + w, Low |-> Min2(o, c), Close |-> c]

MkData(d, w) == [k \in 1..(Len(d) + 1) |-> MkBar(d, w, k)]

\* dt is one of the tables of at most maxlen bars: a quiet stretch of
\* QuietBars bars, then moves drawn from Deltas.
IsTable(dt, maxlen) ==
    \E n \in 1..maxlen : \E d \in [1..(n - 1) -> Deltas] : \E w \in Wicks :
        /\ \A j \in 1..(n - 1) : j < QuietBars => d[j] = 0
        /\ dt = MkData(d, w)

\* the table MkData(d, w) whose bar gb opens g away from the previous close;
\* get_data (lines 82-87) returns whatever the feed holds, opens included
MkGapBar(d, w, g, k) ==
    LET c == BasePrice + SumTo(d, k - 1)
        o == BasePrice + SumTo(d, k - 2) + g
    IN [Open |-> o, High |-> Max2(o, c) + w, Low |-> Min2(o, c), Close |-> c]

IsGapTable(dt, maxlen) ==
    \E n \in 2..maxlen : \E d \in [1..(n - 1) -> Deltas] : \E w \in Wicks :
        \E g \in Gaps : \E gb \in 2..n :
            /\ \A j \in 1..(n - 1) : j < QuietBars => d[j] = 0
            /\ dt = [k \in 1..n |-> IF k = gb THEN MkGapBar(d, w, g, k)
                                     ELSE MkBar(d, w, k)]

VARIABLES
    data,           \* the price table (immutable once loaded)
    run,            \* number of the current run_backtest call
    pc,             \* position in Backtest.run: "init", "broker", "strategy", "done"
    k,              \* the current bar (1-based; data[-1] of the strategy)
    atr,            \* self.atr
    last_s1_win,    \* self.last_s1_win
    trades,         \* open trades, in order of opening
    orders,         \* new orders queued for the next open
    closed_trades,  \* closed-trade records, oldest first
    cash,           \* cash of the broker (starting cash plus realised P&L)
    outcome,        \* "none", "stats" or "error"
    actions,        \* the calls next() made so far in this run
    prev            \* the result of the previous run

vars == <<data, run, pc, k, atr, last_s1_win, trades, orders, closed_trades,
          cash, outcome, actions, prev>>

\* ---- indicator engine -----------------------------------------------------
RECURSIVE RollMax(_, _, _)
RollMax(dt, lo, hi) ==
    IF lo = hi THEN dt[hi].Close ELSE Max2(dt[hi].Close, RollMax(dt, lo, hi - 1))

RECURSIVE RollMin(_, _, _)
RollMin(dt, lo, hi) ==
    IF lo = hi THEN dt[hi].Close ELSE Min2(dt[hi].Close, RollMin(dt, lo, hi - 1))

\* data.Close.rolling(w).max() at bar i: undefined before w bars exist
RollingMax(dt, w, i) == IF i < w THEN NaN ELSE RollMax(dt, i - w + 1, i)
\* data.Close.rolling(w).min() at bar i
RollingMin(dt, w, i) == IF i < w THEN NaN ELSE RollMin(dt, i - w + 1, i)

\* np.max(np.abs([high-low, close-low, low-close])) over arrays of equal length
RECURSIVE calc_TR(_, _, _)
calc_TR(high, low, close) ==
    LET n == Len(high)
        here == Max2(Abs(high[n] - low[n]),
                     Max2(Abs(close[n] - low[n]), Abs(low[n] - close[n])))
    IN IF n = 1 THEN here
       ELSE Max2(here, calc_TR(SubSeq(high, 1, n - 1), SubSeq(low, 1, n - 1),
                               SubSeq(close, 1, n - 1)))

\* x[-p:] of a column of the whole table
LastN(col, p) == IF Len(col) <= p THEN col ELSE SubSeq(col, Len(col) - p + 1, Len(col))
Column(dt, f) == [j \in 1..Len(dt) |-> dt[j][f]]

\* Close.rolling(atr_periods).apply(lambda x: calc_TR(High[-p:], Low[-p:],
\* Close[-p:])).mean(): every complete window yields the True Range of the
\* LAST atr_periods bars of the table; the mean of these equal values is
\* that value, and NaN when no window is complete.
ATR(dt) ==
    IF Len(dt) < atr_periods THEN NaN
    ELSE calc_TR(LastN(Column(dt, "High"), atr_periods),
                 LastN(Column(dt, "Low"), atr_periods),
                 LastN(Column(dt, "Close"), atr_periods))

\* mutant: the system-1 long channel looks further back than system 2
sys1_long_far(dt, i) == RollingMax(dt, sys2_entry + 1, i)

sys1_long(dt, i) == RollingMax(dt, sys1_entry, i)
sys1_short(dt, i) == RollingMin(dt, sys1_entry, i)
sys1_exit_long(dt, i) == RollingMin(dt, sys1_exit, i)
sys1_exit_short(dt, i) == RollingMax(dt, sys1_exit, i)
sys2_long(dt, i) == RollingMax(dt, sys2_entry, i)
sys2_short(dt, i) == RollingMin(dt, sys2_entry, i)
sys2_exit_long(dt, i) == RollingMin(dt, sys2_exit, i)
sys2_exit_short(dt, i) == RollingMax(dt, sys2_exit, i)

\* price == indicator: a comparison with NaN is false
Touches(price, ind) == ind # NaN /\ price = ind

\* ---- broker (Backtest) ----------------------------------------------------
\* mutant: the P&L computed as for a long whatever the direction
TradePLLongOnly(t, p) == (p - t.entry_price) * t.size

\* trade.pl at the price p
TradePL(t, p) == IF t.is_long THEN (p - t.entry_price) * t.size
                 ELSE (t.entry_price - p) * t.size

RECURSIVE SumPL(_, _)
SumPL(trs, p) == IF trs = <<>> THEN 0 ELSE TradePL(Head(trs), p) + SumPL(Tail(trs), p)

RECURSIVE SumValue(_, _)
SumValue(trs, p) == IF trs = <<>> THEN 0 ELSE Head(trs).size * p + SumValue(Tail(trs), p)

\* self.equity: cash plus the unrealised P&L of the open trades
Equity(c, trs, p) == c + SumPL(trs, p)

\* self.position.size: net size of the open trades
RECURSIVE PositionSize(_)
PositionSize(trs) ==
    IF trs = <<>> THEN 0
    ELSE (IF Head(trs).is_long THEN Head(trs).size ELSE 0 - Head(trs).size)
         + PositionSize(Tail(trs))

MarginAvailable(c, trs, p) == Max2(0, Equity(c, trs, p) - SumValue(trs, p))

RECURSIVE Reverse(_)
Reverse(s) == IF s = <<>> THEN <<>> ELSE Append(Reverse(Tail(s)), Head(s))

RECURSIVE SelectTrades(_, _)
SelectTrades(trs, closing) ==
    IF trs = <<>> THEN <<>>
    ELSE IF Head(trs).closing = closing
         THEN <<Head(trs)>> \o SelectTrades(Tail(trs), closing)
         ELSE SelectTrades(Tail(trs), closing)

\* the closed-trade record of the trade t closed at the price p
ClosedRecord(t, p, bar) ==
    [is_long |-> t.is_long, entry_price |-> t.entry_price, exit_price |-> p,
     size |-> t.size, pl |-> TradePL(t, p), sys |-> t.sys,
     entry_bar |-> t.entry_bar, exit_bar |-> bar]

RECURSIVE ClosedRecords(_, _, _)
ClosedRecords(trs, p, bar) ==
    IF trs = <<>> THEN <<>>
    ELSE <<ClosedRecord(Head(trs), p, bar)>> \o ClosedRecords(Tail(trs), p, bar)

\* mutant: the close is recorded but the trades stay in the open set
CloseTradesKeep(trs, cl, c, open, bar) ==
    LET recs == ClosedRecords(Reverse(SelectTrades(trs, TRUE)), open, bar)
    IN [trades |-> [j \in 1..Len(trs) |-> [trs[j] EXCEPT !.closing = FALSE]],
        closed |-> cl \o recs,
        cash |-> c + SumPL(SelectTrades(trs, TRUE), open)]

\* trade.close() orders are put in front of the queue, so they execute
\* first, the last one issued first; each closes its whole trade at the open.
CloseTrades(trs, cl, c, open, bar) ==
    LET recs == ClosedRecords(Reverse(SelectTrades(trs, TRUE)), open, bar)
    IN [trades |-> SelectTrades(trs, FALSE),
        closed |-> cl \o recs,
        cash |-> c + SumPL(SelectTrades(trs, TRUE), open)]

\* a queued market order becomes a trade at the open, unless the margin
\* available does not cover it (the broker then drops the order)
RECURSIVE FillOrders(_, _, _, _, _, _)
FillOrders(trs, ords, c, open, last, bar) ==
    IF ords = <<>> THEN trs
    ELSE LET o == Head(ords)
             t == [is_long |-> o.is_long, entry_price |-> open, size |-> o.size,
                   sl |-> o.sl, sys |-> o.sys, closing |-> FALSE, entry_bar |-> bar]
         IN IF o.size * open > MarginAvailable(c, trs, last)
            THEN FillOrders(trs, Tail(ords), c, open, last, bar)
            ELSE FillOrders(Append(trs, t), Tail(ords), c, open, last, bar)

\* ---- strategy ---------------------------------------------------------------
\* mutant: risk_level left out of the divisor
size_position_no_risk(a, equity) ==
    IF a = NaN THEN NaN
    ELSE IF a = 0 THEN Inf
    ELSE (r_max_num * equity) \div (r_max_den * a)

\* _size_position: np.floor(r_max * equity / (risk_level * atr))
size_position(a, equity) ==
    IF a = NaN THEN NaN
    ELSE IF a = 0 THEN Inf
    ELSE (r_max_num * equity) \div (r_max_den * risk_level * a)

\* buy()/sell() accept a positive whole number of units; anything else
\* (0, nan, inf) raises and aborts the run
ValidSize(s) == s # NaN /\ s # Inf /\ s >= 1

\* mutant: the long exit tests the channels of the short side
ExitLongWrongChannel(t, price, dt, i) ==
    \/ price <= t.sl
    \/ Touches(price, sys1_exit_short(dt, i))
    \/ Touches(price, sys2_exit_short(dt, i))

\* the exit condition of lines 44 and 47
ExitLong(t, price, dt, i) ==
    \/ price <= t.sl
    \/ Touches(price, sys1_exit_long(dt, i))
    \/ Touches(price, sys2_exit_long(dt, i))

ExitShort(t, price, dt, i) ==
    \/ price >= t.sl
    \/ Touches(price, sys1_exit_short(dt, i))
    \/ Touches(price, sys2_exit_short(dt, i))

ExitHit(t, price, dt, i) ==
    IF t.is_long THEN ExitLong(t, price, dt, i) ELSE ExitShort(t, price, dt, i)

\* lines 42-48: trade.close() on every trade whose exit condition holds
ExitCheck(trs, price, dt, i) ==
    [j \in 1..Len(trs) |->
        IF ExitHit(trs[j], price, dt, i) THEN [trs[j] EXCEPT !.closing = TRUE]
        ELSE trs[j]]

BuyOrder(price, a, equity, sys, i) ==
    [is_long |-> TRUE, size |-> size_position(a, equity),
     sl |-> price - risk_level * a, sys |-> sys, bar |-> i]

SellOrder(price, a, equity, sys, i) ==
    [is_long |-> FALSE, size |-> size_position(a, equity),
     sl |-> price + risk_level * a, sys |-> sys, bar |-> i]

\* mutant: the short branch of each system is tested before the long one
EntryCheckShortFirst(price, dt, i, a, equity, s1win) ==
    IF Touches(price, sys1_short(dt, i)) /\ ~s1win
        THEN <<SellOrder(price, a, equity, 1, i)>>
    ELSE IF Touches(price, sys1_long(dt, i)) /\ ~s1win
        THEN <<BuyOrder(price, a, equity, 1, i)>>
    ELSE IF Touches(price, sys2_short(dt, i))
        THEN <<SellOrder(price, a, equity, 2, i)>>
    ELSE IF Touches(price, sys2_long(dt, i))
        THEN <<BuyOrder(price, a, equity, 2, i)>>
    ELSE <<>>

\* lines 50-63: the if/elif chain of the entry check
EntryCheck(price, dt, i, a, equity, s1win) ==
    IF Touches(price, sys1_long(dt, i)) /\ ~s1win
        THEN <<BuyOrder(price, a, equity, 1, i)>>
    ELSE IF Touches(price, sys1_short(dt, i)) /\ ~s1win
        THEN <<SellOrder(price, a, equity, 1, i)>>
    ELSE IF Touches(price, sys2_long(dt, i))
        THEN <<BuyOrder(price, a, equity, 2, i)>>
    ELSE IF Touches(price, sys2_short(dt, i))
        THEN <<SellOrder(price, a, equity, 2, i)>>
    ELSE <<>>

\* lines 67-72: one pass over the snapshot self.trades; len(self.trades)
\* does not change during the pass, the orders being filled at the next open
RECURSIVE Pyramiding(_, _, _, _, _, _)
Pyramiding(rest, ntrades, price, a, equity, i) ==
    IF rest = <<>> THEN <<>>
    ELSE LET t == Head(rest)
             more == Pyramiding(Tail(rest), ntrades, price, a, equity, i)
         IN IF ntrades < unit_limit
            THEN IF t.is_long /\ price >= t.entry_price + a
                     THEN <<BuyOrder(price, a, equity, t.sys, i)>> \o more
                 ELSE IF ~t.is_long /\ price <= t.entry_price - a
                     THEN <<SellOrder(price, a, equity, t.sys, i)>> \o more
                 ELSE more
            ELSE more

\* mutant: the entry check runs as soon as every open trade has a close queued
NewOrdersAfterExit(trs, price, dt, i, a, c, s1win) ==
    IF SelectTrades(trs, FALSE) = <<>>
    THEN EntryCheck(price, dt, i, a, Equity(c, trs, price), s1win)
    ELSE Pyramiding(trs, Len(trs), price, a, Equity(c, trs, price), i)

\* the orders next() issues at the bar i, in order
NewOrders(trs, price, dt, i, a, c, s1win) ==
    IF PositionSize(trs) = 0
    THEN EntryCheck(price, dt, i, a, Equity(c, trs, price), s1win)
    ELSE Pyramiding(trs, Len(trs), price, a, Equity(c, trs, price), i)

\* mutant: a system-1 entry sets the flag
S1WinAfterSet(s1win, flat, ords) ==
    IF flat /\ ords # <<>> /\ ords[1].sys = 1 THEN TRUE ELSE s1win

\* lines 54 and 57: the flag is written after a system-1 buy()/sell() that
\* did not raise, and left alone otherwise
S1WinAfter(s1win, flat, ords) ==
    IF flat /\ ords # <<>> /\ ords[1].sys = 1 THEN FALSE ELSE s1win

\* the position of the first order the broker rejects, 0 if there is none
RECURSIVE FirstInvalid(_, _)
FirstInvalid(ords, j) ==
    IF j > Len(ords) THEN 0
    ELSE IF ~ValidSize(ords[j].size) THEN j
    ELSE FirstInvalid(ords, j + 1)

\* ---- the run (run_backtest, lines 77-80) -------------------------------------
\* 0-based index of the first defined value of a rolling(w) series over n
\* bars; an all-NaN series counts as 0
FirstValid(w, n) == IF n >= w THEN w - 1 ELSE 0

\* the first bar next() is called on (1-based): one after the last of the
\* indicators' first defined values
StartBar(n) ==
    1 + 1 + Max2(FirstValid(sys1_entry, n),
                 Max2(FirstValid(sys1_exit, n),
                      Max2(FirstValid(sys2_entry, n), FirstValid(sys2_exit, n))))

\* mutant: the cash of the previous run is kept
NewBrokerKeepCash(c, cl) == [cash |-> c, closed |-> <<>>]

\* a fresh Backtest: broker with the starting cash and an empty ledger
NewBroker(c, cl) == [cash |-> cash0, closed |-> <<>>]

\* what a completed (or aborted) run hands back
Result ==
    [outcome |-> outcome, trades |-> trades, closed |-> closed_trades,
     equity |-> IF k >= 1 /\ k <= Len(data) THEN Equity(cash, trades, data[k].Close)
                ELSE cash,
     actions |-> actions]

NoResult == [outcome |-> "none"]

\* the state before the first run_backtest call
Fresh ==
    /\ run = 1
    /\ pc = "init"
    /\ k = 0
    /\ atr = NaN
    /\ last_s1_win = FALSE
    /\ trades = <<>>
    /\ orders = <<>>
    /\ closed_trades = <<>>
    /\ cash = cash0
    /\ outcome = "none"
    /\ actions = <<>>
    /\ prev = NoResult

Loaded(maxlen) == IsTable(data, maxlen) /\ Fresh

Init == Loaded(MaxBars)

\* the same program on tables that have one opening gap
InitGap == IsGapTable(data, MaxBarsGap) /\ Fresh

InitTwice == Loaded(MaxBarsTwice)

\* TurtleStrategy.init (lines 21-37), then the loop of Backtest.run starts
StrategyInit ==
    /\ pc = "init"
    /\ atr' = ATR(data)
    /\ last_s1_win' = FALSE
    /\ IF StartBar(Len(data)) <= Len(data)
       THEN k' = StartBar(Len(data)) /\ pc' = "broker"
       ELSE k' = Len(data) /\ pc' = "end"
    /\ UNCHANGED <<data, run, trades, orders, closed_trades, cash, outcome,
                   actions, prev>>

\* the broker's step at the open of the bar k: the queued close orders,
\* then the queued market orders
BrokerNext ==
    /\ pc = "broker"
    /\ LET c == CloseTrades(trades, closed_trades, cash, data[k].Open, k)
       IN /\ closed_trades' = c.closed
          /\ cash' = c.cash
          /\ trades' = FillOrders(c.trades, orders, c.cash, data[k].Open,
                                  data[k].Close, k)
    /\ orders' = <<>>
    /\ pc' = "strategy"
    /\ UNCHANGED <<data, run, k, atr, last_s1_win, outcome, actions, prev>>

\* the entries of the action log for the bar i
CloseActions(trs, i) ==
    LET idx == {j \in 1..Len(trs) : trs[j].closing}
        F[n \in 0..Len(trs)] ==
            IF n = 0 THEN <<>>
            ELSE IF n \in idx THEN Append(F[n - 1], <<i, "close", n>>)
            ELSE F[n - 1]
    IN F[Len(trs)]

OrderActions(ords, i) ==
    [j \in 1..Len(ords) |->
        <<i, IF ords[j].is_long THEN "buy" ELSE "sell", ords[j].size>>]

\* TurtleStrategy.next (lines 39-72) at the bar k
StrategyNext ==
    /\ pc = "strategy"
    /\ LET price == data[k].Close
           closing == ExitCheck(trades, price, data, k)
           ords == NewOrders(closing, price, data, k, atr, cash, last_s1_win)
           bad == FirstInvalid(ords, 1)
       IN /\ trades' = closing
          /\ last_s1_win' = S1WinAfter(last_s1_win, PositionSize(closing) = 0,
                                       SubSeq(ords, 1, IF bad = 0 THEN Len(ords)
                                                       ELSE bad - 1))
          /\ IF bad = 0
             THEN /\ orders' = ords
                  /\ actions' = actions \o CloseActions(closing, k)
                                        \o OrderActions(ords, k)
                  /\ outcome' = outcome
                  /\ IF k < Len(data)
                     THEN k' = k + 1 /\ pc' = "broker"
                     ELSE k' = k /\ pc' = "end"
             ELSE /\ orders' = SubSeq(ords, 1, bad - 1)
                  /\ actions' = actions \o CloseActions(closing, k)
                                        \o OrderActions(SubSeq(ords, 1, bad), k)
                  /\ outcome' = "error"
                  /\ k' = k
                  /\ pc' = "done"
    /\ UNCHANGED <<data, run, atr, closed_trades, cash, prev>>

\* bt.run() returns the statistics
Finish ==
    /\ pc = "end"
    /\ outcome' = "stats"
    /\ pc' = "done"
    /\ UNCHANGED <<data, run, k, atr, last_s1_win, trades, orders,
                   closed_trades, cash, actions, prev>>

\* run_backtest is called again on the same table: a new Backtest and a new
\* strategy object
Rerun ==
    /\ pc = "done"
    /\ run < MaxRuns
    /\ prev' = Result
    /\ run' = run + 1
    /\ pc' = "init"
    /\ k' = 0
    /\ cash' = NewBroker(cash, closed_trades).cash
    /\ closed_trades' = NewBroker(cash, closed_trades).closed
    /\ trades' = <<>>
    /\ orders' = <<>>
    /\ outcome' = "none"
    /\ actions' = <<>>
    /\ UNCHANGED <<data, atr, last_s1_win>>

Next == StrategyInit \/ BrokerNext \/ StrategyNext \/ Finish

Spec == Init /\ [][Next]_vars

SpecGap == InitGap /\ [][Next]_vars

\* the same program, run_backtest being called MaxRuns times on the table
NextTwice == StrategyInit \/ BrokerNext \/ StrategyNext \/ Finish \/ Rerun

SpecTwice == InitTwice /\ [][NextTwice]_vars

TypeOK ==
    /\ pc \in {"init", "broker", "strategy", "end", "done"}
    /\ outcome \in {"none", "stats", "error"}
    /\ k \in 0..Len(data)

\* ---- claims ----------------------------------------------------------------------

\* C1: after every bar step and every ledger mutation the number of open
\* positions is at most unit_limit, the pyramiding step included.
UnitLimitRespected == Len(trades) <= unit_limit

\* C2: all open positions, and the orders queued on top of them, have the
\* same direction, and the direction of the open positions changes only by
\* passing through the flat state.
SameDirection(trs) == \A i, j \in 1..Len(trs) : trs[i].is_long = trs[j].is_long

OneDirection ==
    [][/\ SameDirection(trades' \o orders')
       /\ (trades # <<>> /\ trades' # <<>>) => trades[1].is_long = trades'[1].is_long]_vars

\* a short is open after an earlier long was closed
ReversalWitness ==
    /\ trades # <<>> /\ ~trades[1].is_long
    /\ \E j \in 1..Len(closed_trades) : closed_trades[j].is_long

\* C3: the value of every indicator at the bar i is the same for two tables
\* that agree on the bars up to i and differ only after i.
IndicatorsAt(dt, i) ==
    <<sys1_long(dt, i), sys1_short(dt, i), sys1_exit_long(dt, i),
      sys1_exit_short(dt, i), sys2_long(dt, i), sys2_short(dt, i),
      sys2_exit_long(dt, i), sys2_exit_short(dt, i)>>

NoLookahead ==
    pc = "strategy" =>
        \A d \in [1..(Len(data) - 1) -> Deltas] : \A w \in Wicks :
            LET other == MkData(d, w)
            IN SubSeq(other, 1, k) = SubSeq(data, 1, k)
               => /\ IndicatorsAt(other, k) = IndicatorsAt(data, k)
                  /\ ATR(other) = atr

SizeRule ==
    \A j \in 1..Len(orders) :
        LET q == orders[j].size
            e == Equity(cash, trades, data[orders[j].bar].Close)
            unit == r_max_den * risk_level * atr
        IN /\ atr > 0
           /\ q * unit <= r_max_num * e
           /\ r_max_num * e < (q + 1) * unit
           /\ (e = 10000 /\ atr = 10 /\ risk_level = 2 /\ r_max_num = 2
               /\ r_max_den = 100) => q = 10

\* an entry order of 10 units at equity 10000 and ATR 10
SizeTenWitness ==
    \E j \in 1..Len(orders) :
        /\ orders[j].size = 10 /\ atr = 10
        /\ Equity(cash, trades, data[orders[j].bar].Close) = 10000

\* C6: every open position has a positive whole size, and when the sizing
\* rule yields 0 no buy or sell call is made.
ZeroSizeSkipped ==
    /\ \A j \in 1..Len(trades) : trades[j].size >= 1
    /\ \A j \in 1..Len(actions) :
          actions[j][2] \in {"buy", "sell"} => actions[j][3] # 0

\* C7: a run on a table with fewer bars than max(sys2_entry, atr_window)
\* ends in InsufficientDataError, without a statistics report.
ShortTableRaises ==
    (Len(data) < Max2(sys2_entry, atr_periods) /\ pc = "done")
        => (outcome = "InsufficientDataError" /\ outcome # "stats")

\* C8: closing the only open position removes it from the open set and appends
\* exactly one closed-trade record, whose P&L has the sign of (exit - entry)
\* for a long and of (entry - exit) for a short; earlier records are unchanged.
Sign(x) == IF x > 0 THEN 1 ELSE IF x < 0 THEN 0 - 1 ELSE 0

CloseOnlyPosition ==
    [][(pc = "broker" /\ Len(trades) = 1 /\ trades[1].closing) =>
        LET t == trades[1]
            n == Len(closed_trades)
        IN /\ \A j \in 1..Len(trades') : trades'[j].entry_bar = k
           /\ orders = <<>> => trades' = <<>>
           /\ Len(closed_trades') = n + 1
           /\ SubSeq(closed_trades', 1, n) = closed_trades
           /\ closed_trades'[n + 1].entry_price = t.entry_price
           /\ closed_trades'[n + 1].exit_price = data[k].Open
           /\ closed_trades'[n + 1].size = t.size
           /\ Sign(closed_trades'[n + 1].pl) =
                 IF t.is_long THEN Sign(data[k].Open - t.entry_price)
                 ELSE Sign(t.entry_price - data[k].Open)]_vars

\* the only open position, a short, has just been closed at a loss, after an
\* earlier closed trade
CloseOnlyWitness ==
    /\ pc = "strategy" /\ trades = <<>> /\ Len(closed_trades) = 2
    /\ closed_trades[1].exit_bar < k
    /\ closed_trades[2].exit_bar = k
    /\ ~closed_trades[2].is_long
    /\ closed_trades[2].pl < 0

\* C9: every open position whose stop-loss is breached by the close of the bar
\* is closed by the exit check of that bar, and it is closed in full.
Breached(t, price) == IF t.is_long THEN t.sl >= price ELSE t.sl <= price

SameTrade(t, u) ==
    t.entry_bar = u.entry_bar /\ t.sl = u.sl /\ t.is_long = u.is_long

RECURSIVE SumSize(_)
SumSize(recs) == IF recs = <<>> THEN 0 ELSE Head(recs).size + SumSize(Tail(recs))

OwnExitChannel(t, dt, i) ==
    IF t.sys = 1
    THEN IF t.is_long THEN sys1_exit_long(dt, i) ELSE sys1_exit_short(dt, i)
    ELSE IF t.is_long THEN sys2_exit_long(dt, i) ELSE sys2_exit_short(dt, i)

PerSystemExit ==
    [][pc = "strategy" =>
        \A j \in 1..Len(trades) :
            (trades'[j].closing /\ ~Breached(trades[j], data[k].Close))
                => Touches(data[k].Close, OwnExitChannel(trades[j], data, k))]_vars

\* a system-1 position has just been closed by a touch of its exit channel,
\* its stop-loss not being breached
ChannelExitWitness ==
    /\ pc = "broker" /\ k >= 2
    /\ \E j \in 1..Len(trades) :
          /\ trades[j].closing /\ trades[j].sys = 1
          /\ ~Breached(trades[j], data[k - 1].Close)
          /\ Touches(data[k - 1].Close, OwnExitChannel(trades[j], data, k - 1))

\* C11: at a flat bar with a system-1 breakout the entry is skipped when the
\* previous system-1 trade was a loss and taken otherwise; the filter is
\* never applied to a system-2 entry.
S1Closed == SelectSeq(closed_trades, LAMBDA r : r.sys = 1)

\* the units of the system-1 trade that was closed last
PrevS1Units ==
    {j \in 1..Len(S1Closed) : S1Closed[j].exit_bar = S1Closed[Len(S1Closed)].exit_bar}

PrevS1Loss == S1Closed # <<>> /\ \A j \in PrevS1Units : S1Closed[j].pl < 0

PrevS1NotLoss == \A j \in PrevS1Units : S1Closed[j].pl >= 0

S1Breakout(dt, i) ==
    \/ Touches(dt[i].Close, sys1_long(dt, i))
    \/ Touches(dt[i].Close, sys1_short(dt, i))

LastTradeFilter ==
    [][(pc = "strategy" /\ PositionSize(trades) = 0 /\ S1Breakout(data, k))
        => /\ PrevS1Loss => \A j \in 1..Len(orders') : orders'[j].sys # 1
           /\ PrevS1NotLoss => actions' # actions]_vars

\* C12: at a flat bar where no system-1 entry is taken (no system-1
\* breakout, or the breakout skipped by the filter) a close at the
\* sys2_entry-bar high issues a buy and a close at the sys2_entry-bar low a
\* sell.
FallbackCase ==
    /\ pc = "strategy" /\ PositionSize(trades) = 0
    /\ ~S1Breakout(data, k) \/ last_s1_win
    /\ \/ Touches(data[k].Close, sys2_long(data, k))
       \/ Touches(data[k].Close, sys2_short(data, k))

SystemTwoFallback ==
    [][FallbackCase =>
        /\ Len(actions') = Len(actions) + 1
        /\ actions'[Len(actions')][2] =
               IF Touches(data[k].Close, sys2_long(data, k)) THEN "buy" ELSE "sell"]_vars

\* C13: in every bar the entry check runs exactly when the strategy is
\* flat after the exit check, and the pyramiding check looks only at the
\* units the exit check of that bar left open: the orders of the bar are
\* those of the entry check when every open unit was closed, and those of
\* the pyramiding check over the remaining units otherwise.
Kinds(ords) == [j \in 1..Len(ords) |-> IF ords[j].is_long THEN "buy" ELSE "sell"]

\* the buy and sell calls the step made, in order
Issued(before, after) ==
    LET new == SubSeq(after, Len(before) + 1, Len(after))
        calls == SelectSeq(new, LAMBDA a : a[2] # "close")
    IN [j \in 1..Len(calls) |-> calls[j][2]]

PriorityOrder ==
    [][(pc = "strategy" /\ outcome' # "error") =>
        LET price == data[k].Close
            remaining == SelectTrades(trades', FALSE)
            equity == Equity(cash, trades, price)
        IN Issued(actions, actions') =
               IF remaining = <<>>
               THEN Kinds(EntryCheck(price, data, k, atr, equity, last_s1_win))
               ELSE Kinds(Pyramiding(remaining, Len(remaining), price, atr,
                                     equity, k))]_vars

\* C14: a bar with open units issues at most one pyramiding order, and
\* issues it only when fewer than unit_limit units are open and the close
\* is at least one ATR beyond the entry price of the most recent unit.
AddCondition(t, price, a) ==
    IF t.is_long THEN price >= t.entry_price + a ELSE price <= t.entry_price - a

OneUnitPerBar ==
    [][(pc = "strategy" /\ trades # <<>>) =>
        LET issued == Issued(actions, actions')
        IN /\ Len(issued) <= 1
           /\ issued # <<>> =>
                 /\ Len(trades) < unit_limit
                 /\ AddCondition(trades[Len(trades)], data[k].Close, atr)]_vars

\* C15: the stop of every order is the close of its bar minus (long) or plus
\* (short) risk_level times the ATR, the position it opens keeps that stop,
\* and with ATR > 0 the stop of a long position is strictly below its entry
\* price and the stop of a short position strictly above it.
StopOf(is_long, price, a) ==
    IF is_long THEN price - risk_level * a ELSE price + risk_level * a

StopAtCreation ==
    /\ \A j \in 1..Len(orders) :
          orders[j].sl = StopOf(orders[j].is_long, data[orders[j].bar].Close, atr)
    /\ \A j \in 1..Len(trades) :
          /\ trades[j].sl = StopOf(trades[j].is_long,
                                   data[trades[j].entry_bar - 1].Close, atr)
          /\ atr > 0 => IF trades[j].is_long
                        THEN trades[j].sl < trades[j].entry_price
                        ELSE trades[j].sl > trades[j].entry_price

\* C16: no call of next() acts at a bar where an indicator of its rule is
\* undefined (entry and pyramiding: the entry channel and the ATR; exit: the
\* exit channels), and no call acts before every indicator window of the
\* strategy is populated.
LargestWindow ==
    Max2(sys1_entry, Max2(sys1_exit, Max2(sys2_entry, Max2(sys2_exit, atr_periods))))

OwnWindow(kind) ==
    IF kind = "close" THEN Max2(sys1_exit, sys2_exit)
    ELSE Max2(sys1_entry, atr_periods)

OwnIndicatorsDefined ==
    \A j \in 1..Len(actions) :
        /\ actions[j][1] >= OwnWindow(actions[j][2])
        /\ actions[j][2] # "close" => atr # NaN

AllWindowsPopulated == \A j \in 1..Len(actions) : actions[j][1] >= LargestWindow

SignalsDefined == OwnIndicatorsDefined /\ AllWindowsPopulated

\* C17: calc_TR of a bar whose close lies between its low and its high is
\* high - low (20 for high 110, low 90, close 105), and the True Range the
\* ATR is made of is, for every bar of its window, the largest of
\* high - low, |high - previous close| and |low - previous close|.
TrueRange(dt, t) ==
    IF t = 1 THEN dt[t].High - dt[t].Low
    ELSE Max2(dt[t].High - dt[t].Low,
              Max2(Abs(dt[t].High - dt[t - 1].Close), Abs(dt[t].Low - dt[t - 1].Close)))

\* the largest True Range of the bars lo..hi
RECURSIVE MaxTrueRange(_, _, _)
MaxTrueRange(dt, lo, hi) ==
    IF lo = hi THEN TrueRange(dt, hi)
    ELSE Max2(TrueRange(dt, hi), MaxTrueRange(dt, lo, hi - 1))

BarTR(dt, t) == calc_TR(<<dt[t].High>>, <<dt[t].Low>>, <<dt[t].Close>>)

TrueRangeRule ==
    /\ calc_TR(<<110>>, <<90>>, <<105>>) = 20
    /\ \A t \in 1..Len(data) :
          (data[t].Low <= data[t].Close /\ data[t].Close <= data[t].High) => BarTR(data, t) = data[t].High - data[t].Low
    /\ atr # NaN =>
          atr = MaxTrueRange(data, Len(data) - atr_periods + 1, Len(data))

\* C18: last_s1_win is False in every state of a run, and a flat bar whose
\* close is at the sys1_entry-bar high or low always issues an entry,
\* whatever the outcome of the earlier trades.
FlagNeverSet ==
    [][/\ ~last_s1_win /\ ~last_s1_win'
       /\ (pc = "strategy" /\ PositionSize(trades) = 0 /\ S1Breakout(data, k))
             => Len(Issued(actions, actions')) = 1]_vars

\* an entry is queued at a flat bar after a losing system-1 trade
EntryAfterLossWitness ==
    /\ PrevS1Loss /\ trades = <<>> /\ orders # <<>> /\ ~last_s1_win
    /\ orders[1].sys = 1
    /\ orders[1].bar >= S1Closed[Len(S1Closed)].exit_bar

\* C19: a close at the sys2_entry-bar high (low) is at the sys1_entry-bar
\* high (low) as well, so the system-1 branch of the entry chain is the one
\* taken: no order, open position or closed trade belongs to system 2.
AllSystemOne(recs) == \A j \in 1..Len(recs) : recs[j].sys = 1

NoSystemTwoEntry ==
    /\ AllSystemOne(orders) /\ AllSystemOne(trades) /\ AllSystemOne(closed_trades)
    /\ k >= 1 =>
          /\ Touches(data[k].Close, sys2_long(data, k))
                => Touches(data[k].Close, sys1_long(data, k))
          /\ Touches(data[k].Close, sys2_short(data, k))
                => Touches(data[k].Close, sys1_short(data, k))

\* an entry queued at a bar whose close is at the sys2_entry-bar high or low
SystemTwoBreakoutWitness ==
    /\ trades = <<>> /\ orders # <<>> /\ orders[1].sys = 1
    /\ LET b == orders[1].bar
       IN \/ Touches(data[b].Close, sys2_long(data, b))
          \/ Touches(data[b].Close, sys2_short(data, b))

\* C20: a flat bar issues at most one entry order, and when its close is
\* at the rolling high and at the rolling low at once (a constant series)
\* the order issued is the buy and no sell is issued.
LongFirst ==
    [][(pc = "strategy" /\ PositionSize(trades) = 0) =>
        /\ Len(Issued(actions, actions')) <= 1
        /\ (/\ Touches(data[k].Close, sys1_long(data, k))
            /\ Touches(data[k].Close, sys1_short(data, k)))
              => Issued(actions, actions') = <<"buy">>]_vars

\* a buy queued at a flat bar that ends sys1_entry bars of equal close
ConstantSeriesWitness ==
    /\ trades = <<>> /\ Len(orders) = 1 /\ orders[1].is_long
    /\ LET b == orders[1].bar
       IN /\ Touches(data[b].Close, sys1_long(data, b))
          /\ Touches(data[b].Close, sys1_short(data, b))

====
